---- MODULE Spec2Model ----
(***************************************************************************)
(* G3OutputParser (the line protocol parser of the g3 agent) and           *)
(* G3ProcessHandler (one subprocess and one parser per session).           *)
(*                                                                         *)
(* Text is a sequence of one-character strings; the parser works on the    *)
(* characters, so markers and payload lines can be cut anywhere.           *)
(***************************************************************************)
EXTENDS Integers, Sequences, FiniteSets, TLC

VARIABLES
    script,     \* parser specifications: the lines the subprocess prints
    text,       \* parser specifications: the stream the subprocess writes
    pos,        \* number of characters of text already handed to parse
    parser,     \* the G3OutputParser object
    out,        \* every event returned by parse so far, in order
    trace,      \* one record per line the parser has processed
    ret,        \* the last call on the parser and its remainingBuffer
    cut,        \* the last flush or reset: where in text, how many events
    procs,      \* handler: every subprocess spawned so far
    activeSessions, \* handler: sessionId -> index in procs
    registry,   \* handler: what the AgentRegistry was last told per session
    sink,       \* handler: the events handed to onCliEvent, per session
    notified,   \* handler: how often each callback was invoked, and how
                \* often stopProcess found no session
    now         \* handler: Date.now()

parserVars == <<script, text, pos, parser, out, trace, ret, cut>>
handlerVars == <<procs, activeSessions, registry, sink, notified, now>>
vars == <<script, text, pos, parser, out, trace, ret, cut,
          procs, activeSessions, registry, sink, notified, now>>

----------------------------------------------------------------------------
(* Characters and string primitives                                        *)

NL == "\n"

\* the characters String.prototype.trim removes that occur in the model
WhiteSpace == {" ", "\t", "\r", "\n"}

\* s.substring(from) with a 0-based index
SubstringFrom(s, from) == SubSeq(s, from + 1, Len(s))

\* s.substring(from, to) with 0-based indexes, to exclusive
Substring(s, from, to) == SubSeq(s, from + 1, to)

\* s.startsWith(prefix)
StartsWith(s, prefix) ==
    /\ Len(s) >= Len(prefix)
    /\ SubSeq(s, 1, Len(prefix)) = prefix

\* the 1-based positions of c in s
Positions(s, c) == {i \in 1..Len(s) : s[i] = c}

\* s.indexOf(c): 0-based index of the first c, -1 when there is none
IndexOf(s, c) ==
    LET hits == Positions(s, c)
    IN  IF hits = {} THEN -1
        ELSE (CHOOSE i \in hits : \A j \in hits : i <= j) - 1

\* s.trim()
RECURSIVE FirstSolid(_, _)
FirstSolid(s, i) ==
    IF i > Len(s) \/ s[i] \notin WhiteSpace THEN i ELSE FirstSolid(s, i + 1)

RECURSIVE LastSolid(_, _)
LastSolid(s, i) ==
    IF i < 1 \/ s[i] \notin WhiteSpace THEN i ELSE LastSolid(s, i - 1)

Trim(s) == SubSeq(s, FirstSolid(s, 1), LastSolid(s, Len(s)))

\* s.split("\n"): always at least one element, the last one is what follows
\* the last line break
Split(s) ==
    LET breaks == Positions(s, NL)
        \* where the n-th element starts and ends
        from(n) == IF n = 1 THEN 1
                   ELSE 1 + CHOOSE i \in breaks :
                                Cardinality({j \in breaks : j < i}) = n - 2
        to(n)   == IF n = Cardinality(breaks) + 1 THEN Len(s)
                   ELSE (CHOOSE i \in breaks :
                             Cardinality({j \in breaks : j < i}) = n - 1) - 1
    IN  [n \in 1..(Cardinality(breaks) + 1) |-> SubSeq(s, from(n), to(n))]

----------------------------------------------------------------------------
(* The protocol literals of G3OutputParser.parse                           *)

AGENT_RESPONSE == <<"A","G","E","N","T","_","R","E","S","P","O","N","S","E",":">>
TOOL_CALL == <<"T","O","O","L","_","C","A","L","L",":">>
TOOL_OUTPUT == <<"T","O","O","L","_","O","U","T","P","U","T",":">>
END_TOOL_OUTPUT == <<"E","N","D","_","T","O","O","L","_","O","U","T","P","U","T">>
FINAL_OUTPUT == <<"F","I","N","A","L","_","O","U","T","P","U","T",":">>
TOOL_ARG == <<"T","O","O","L","_","A","R","G",":">>
CONTEXT_STATUS == <<"C","O","N","T","E","X","T","_","S","T","A","T","U","S",":">>

\* enum ParseState
Idle == "Idle"
AgentResponse == "AgentResponse"
ToolArgs == "ToolArgs"
ToolOutput == "ToolOutput"
FinalOutput == "FinalOutput"
ParseState == {Idle, AgentResponse, ToolArgs, ToolOutput, FinalOutput}

\* the null of currentToolName; no text equals it
Null == <<"null">>

\* the {} of currentToolArgs
EmptyArgs == <<>>

\* only null counts as no name
Truthy_NotNull(s) == s # Null

\* JavaScript truthiness of a string | null
Truthy(s) == s # Null /\ s # <<>>

----------------------------------------------------------------------------
(* G3OutputParser                                                          *)

\* new G3OutputParser(): objs holds the argument objects the parser has
\* created, currentToolArgs is a reference into it
NewParser ==
    [buffer |-> <<>>,
     state |-> Idle,
     currentToolName |-> Null,
     currentToolArgs |-> 1,
     currentToolOutput |-> <<>>,
     objs |-> <<EmptyArgs>>]

\* a key already present keeps its first value
SetArg_KeepFirst(args, key, value) ==
    [k \in (DOMAIN args) \cup {key} |->
        IF k \in DOMAIN args THEN args[k] ELSE value]

\* this.currentToolArgs[key] = value
SetArg(args, key, value) ==
    [k \in (DOMAIN args) \cup {key} |-> IF k = key THEN value ELSE args[k]]

ToolUseEvent(p) ==
    [streamEventType |-> "kilocode", type |-> "say", say |-> "tool_use",
     tool |-> p.currentToolName, name |-> p.currentToolName,
     params |-> p.currentToolArgs]

\* the text of the event is the trimmed line
TextEvent_Trimmed(line) ==
    [streamEventType |-> "kilocode", type |-> "say", say |-> "text",
     text |-> Trim(line) \o <<NL>>, partial |-> TRUE]

TextEvent(line) ==
    [streamEventType |-> "kilocode", type |-> "say", say |-> "text",
     text |-> line \o <<NL>>, partial |-> TRUE]

FinalTextEvent(line) ==
    [streamEventType |-> "kilocode", type |-> "say", say |-> "text",
     text |-> line \o <<NL>>, partial |-> TRUE, isAnswered |-> TRUE]

StatusEvent(trimmed, t) ==
    [streamEventType |-> "status",
     message |-> Trim(SubstringFrom(trimmed, Len(CONTEXT_STATUS))),
     timestamp |-> t]

\* the argument is written into every argument object the parser created
StoreToolArg_Shared(p, trimmed) ==
    LET content == Trim(SubstringFrom(trimmed, Len(TOOL_ARG)))
        eqIndex == IndexOf(content, "=")
        key     == Trim(Substring(content, 0, eqIndex))
        value   == Trim(SubstringFrom(content, eqIndex + 1))
    IN  IF eqIndex # -1
        THEN [p EXCEPT !.objs = [i \in 1..Len(p.objs) |->
                                    SetArg(p.objs[i], key, value)]]
        ELSE p

\* the TOOL_ARG: branch of the ToolArgs state
StoreToolArg(p, trimmed) ==
    LET content == Trim(SubstringFrom(trimmed, Len(TOOL_ARG)))
        eqIndex == IndexOf(content, "=")
        key     == Trim(Substring(content, 0, eqIndex))
        value   == Trim(SubstringFrom(content, eqIndex + 1))
    IN  IF eqIndex # -1
        THEN [p EXCEPT !.objs[p.currentToolArgs] = SetArg(@, key, value)]
        ELSE p

\* every payload line is handled as in Idle, whatever the state
Payload_AsIdle(p, line, trimmed, t) ==
    IF StartsWith(trimmed, CONTEXT_STATUS)
    THEN [p |-> p, evs |-> <<StatusEvent(trimmed, t)>>]
    ELSE [p |-> p, evs |-> <<>>]

\* "Handle content based on state": a line that is no marker.  The parser
\* after the line and the events the line pushed; t is the clock reading
\* of a status event.
Payload(p, line, trimmed, t) ==
    IF p.state = AgentResponse
    THEN [p |-> p, evs |-> <<TextEvent(line)>>]
    ELSE IF p.state = ToolArgs
    THEN [p |-> IF StartsWith(trimmed, TOOL_ARG)
                THEN StoreToolArg(p, trimmed) ELSE p,
          evs |-> <<>>]
    ELSE IF p.state = ToolOutput
    THEN [p |-> [p EXCEPT !.currentToolOutput = @ \o line \o <<NL>>],
          evs |-> <<>>]
    ELSE IF p.state = FinalOutput
    THEN [p |-> p, evs |-> <<FinalTextEvent(line)>>]
    ELSE IF StartsWith(trimmed, CONTEXT_STATUS)
    THEN [p |-> p, evs |-> <<StatusEvent(trimmed, t)>>]
    ELSE [p |-> p, evs |-> <<>>]

\* TOOL_CALL: keeps the argument object of the call before
Dispatch_KeepArgs(p, line, trimmed, t) ==
    IF trimmed = AGENT_RESPONSE
    THEN [p |-> [p EXCEPT !.state = AgentResponse], evs |-> <<>>]
    ELSE IF StartsWith(trimmed, TOOL_CALL)
    THEN [p |-> [p EXCEPT !.state = ToolArgs,
                         !.currentToolName =
                             Trim(SubstringFrom(trimmed, Len(TOOL_CALL)))],
          evs |-> <<>>]
    ELSE IF StartsWith(trimmed, TOOL_OUTPUT)
    THEN [p |-> [p EXCEPT !.state = ToolOutput,
                         !.currentToolOutput = <<>>],
          evs |-> IF Truthy(p.currentToolName)
                  THEN <<ToolUseEvent(p)>> ELSE <<>>]
    ELSE IF trimmed = END_TOOL_OUTPUT
    THEN [p |-> [p EXCEPT !.state = Idle, !.currentToolName = Null],
          evs |-> <<>>]
    ELSE IF trimmed = FINAL_OUTPUT
    THEN [p |-> [p EXCEPT !.state = FinalOutput], evs |-> <<>>]
    ELSE Payload(p, line, trimmed, t)

\* The body of the for loop of parse for one line and its trimmed form:
\* the marker chain, then the payload handling.
Dispatch(p, line, trimmed, t) ==
    IF trimmed = AGENT_RESPONSE
    THEN [p |-> [p EXCEPT !.state = AgentResponse], evs |-> <<>>]
    ELSE IF StartsWith(trimmed, TOOL_CALL)
    THEN [p |-> [p EXCEPT !.state = ToolArgs,
                         !.currentToolName =
                             Trim(SubstringFrom(trimmed, Len(TOOL_CALL))),
                         !.objs = Append(@, EmptyArgs),
                         !.currentToolArgs = Len(p.objs) + 1],
          evs |-> <<>>]
    ELSE IF StartsWith(trimmed, TOOL_OUTPUT)
    THEN [p |-> [p EXCEPT !.state = ToolOutput,
                         !.currentToolOutput = <<>>],
          evs |-> IF Truthy(p.currentToolName)
                  THEN <<ToolUseEvent(p)>> ELSE <<>>]
    ELSE IF trimmed = END_TOOL_OUTPUT
    THEN [p |-> [p EXCEPT !.state = Idle, !.currentToolName = Null],
          evs |-> <<>>]
    ELSE IF trimmed = FINAL_OUTPUT
    THEN [p |-> [p EXCEPT !.state = FinalOutput], evs |-> <<>>]
    ELSE Payload(p, line, trimmed, t)

\* one iteration of the for loop of parse
ProcessLine(p, line, t) == Dispatch(p, line, Trim(line), t)

\* what an observer sees of the parser apart from its buffer
View(p) ==
    [state |-> p.state,
     currentToolName |-> p.currentToolName,
     args |-> p.objs[p.currentToolArgs],
     currentToolOutput |-> p.currentToolOutput]

\* the run of parse so far extended by one processed line: the parser, the
\* events pushed and, per line, the parser before and after it
Extend(acc, line, r) ==
    [p |-> r.p,
     events |-> acc.events \o r.evs,
     steps |-> Append(acc.steps,
                      [line |-> line, pre |-> View(acc.p),
                       evs |-> r.evs, post |-> View(r.p)])]

\* the for loop of parse over the complete lines
RECURSIVE ProcessLines(_, _, _)
ProcessLines(acc, lines, t) ==
    IF lines = <<>> THEN acc
    ELSE ProcessLines(
             Extend(acc, Head(lines), ProcessLine(acc.p, Head(lines), t)),
             Tail(lines), t)

\* the partial line is dropped instead of kept
PopOrEmpty_Lost(lines) == <<>>

\* lines.pop() || ""
PopOrEmpty(lines) ==
    LET last == lines[Len(lines)]
    IN  IF last = <<>> THEN <<>> ELSE last

\* parse(chunk): p is the parser afterwards (p.buffer is the returned
\* remainingBuffer), events the returned events
Parse(p, chunk, t) ==
    LET lines == Split(p.buffer \o chunk)
    IN  ProcessLines(
            [p |-> [p EXCEPT !.buffer = PopOrEmpty(lines)],
             events |-> <<>>, steps |-> <<>>],
            SubSeq(lines, 1, Len(lines) - 1), t)

\* flush(): returns an empty result whatever the buffer holds; p is the
\* parser afterwards
Flush(p) ==
    [p |-> p, events |-> <<>>, remainingBuffer |-> <<>>]

\* reset()
Reset(p) ==
    [p EXCEPT !.buffer = <<>>, !.state = Idle]

----------------------------------------------------------------------------
(* Bounds                                                                  *)

MaxLines == 2       \* lines of an arbitrary stream
MaxArgs == 2        \* TOOL_ARG lines of one tool call
MaxCuts == 1        \* flush and reset calls on one parser
MaxTime == 1        \* clock readings 1..MaxTime
MaxCalls == 4       \* calls and callbacks one handler takes

Times == 1..MaxTime

----------------------------------------------------------------------------
(* Streams: the lines a subprocess may print                               *)

LineAgent == AGENT_RESPONSE
LineCall == TOOL_CALL \o <<"b">>
LineCallNoName == <<" ">> \o TOOL_CALL \o <<" ">>
LineCallRun == <<"\t">> \o TOOL_CALL \o <<" ", "r", "u", "n", "\r">>
LineArg == TOOL_ARG \o <<"k", "=", "v">>
LineArgW == TOOL_ARG \o <<"k", "=", "w">>
LineOutput == TOOL_OUTPUT
LineOutputTail == TOOL_OUTPUT \o <<"x">>
LineEnd == END_TOOL_OUTPUT
LineFinal == FINAL_OUTPUT \o <<"\r">>
LineStatus == <<" ">> \o CONTEXT_STATUS \o <<" ", "m", "\r">>
LineStatusBare == CONTEXT_STATUS
LinePayload == <<" ", "h">>
LineEmpty == <<>>

Raw(l) == [kind |-> "raw", line |-> l]

\* the lines arbitrary streams are made of
StreamLines ==
    {Raw(LineAgent), Raw(LinePayload), Raw(LineCall), Raw(LineArg),
     Raw(LineOutput), Raw(LineEnd), Raw(LineFinal), Raw(LineStatus)}

\* the lines of the streams on which flush and reset are tried
ParserLines ==
    {Raw(LineAgent), Raw(LinePayload), Raw(LineCall), Raw(LineOutput)}

\* every script of at most n lines of lex
Scripts(lex, n) == UNION {[1..m -> lex] : m \in 0..n}

RawScript(ls) == [i \in 1..Len(ls) |-> Raw(ls[i])]

\* longer sessions of the agent
Transcripts ==
    {RawScript(<<LineCall, LineArg, LineOutput, LinePayload, LineEnd,
                 LineStatus, LineAgent, LinePayload, LinePayload>>),
     RawScript(<<LineCall, LineOutput, LineEnd, LineOutput>>),
     RawScript(<<LineCallNoName, LineArg, LineOutput, LineEmpty>>),
     RawScript(<<LineCall, LineArg, LineOutput, LineOutput>>),
     RawScript(<<LineOutputTail, LinePayload, LineOutput>>),
     RawScript(<<LineStatusBare, LineAgent, LineStatus, LineEmpty,
                 LinePayload>>),
     RawScript(<<LineFinal, LineEmpty, LineStatusBare>>),
     RawScript(<<LineAgent, LinePayload, LineEmpty, LineFinal, LineEmpty,
                 LineOutput>>),
     RawScript(<<LineCall, LineArg, LineCallRun, LineOutput, LineArg,
                 LineOutput>>)}

\* the text of a script: every line followed by its line break
RECURSIVE Render(_)
Render(sc) ==
    IF sc = <<>> THEN <<>>
    ELSE Head(sc).line \o <<NL>> \o Render(Tail(sc))

\* one tool call as the agent prints it
CallLines ==
    {[kind |-> "call", name |-> <<"b">>, line |-> TOOL_CALL \o <<"b">>],
     [kind |-> "call", name |-> <<"r", "u", "n">>,
      line |-> <<"\t">> \o TOOL_CALL \o <<" ", "r", "u", "n", "\r">>]}

ArgLines ==
    {[kind |-> "arg", key |-> <<"k">>, value |-> <<"v">>,
      line |-> TOOL_ARG \o <<"k", "=", "v">>],
     [kind |-> "arg", key |-> <<"k">>, value |-> <<"w">>,
      line |-> TOOL_ARG \o <<"k", "=", "w">>],
     [kind |-> "arg", key |-> <<"j">>, value |-> <<"v", "=", "w">>,
      line |-> <<" ">> \o TOOL_ARG \o <<" ", "j", " ", "=", " ", "v", "=", "w", "\r">>],
     [kind |-> "arg", key |-> <<>>, value |-> <<"v">>,
      line |-> TOOL_ARG \o <<"=", "v">>],
     [kind |-> "arg", key |-> <<"k">>, value |-> <<>>,
      line |-> TOOL_ARG \o <<"k", "=">>]}

OutputLine == [kind |-> "output", line |-> TOOL_OUTPUT]

CallScripts ==
    {<<c>> \o args \o <<OutputLine>> :
        c \in CallLines, args \in Scripts(ArgLines, MaxArgs)}

----------------------------------------------------------------------------
\* new G3ProcessHandler(registry, callbacks)
HandlerIdle ==
    /\ procs = <<>>
    /\ activeSessions = <<>>
    /\ registry = <<>>
    /\ sink = <<>>
    /\ notified = [onStateChanged |-> 0, onSessionCreated |-> 0,
                   onStartSessionFailed |-> 0, onDebugLog |-> 0,
                   stopMissed |-> 0]

----------------------------------------------------------------------------
(* A parser driven by one stream                                           *)

ParserFresh ==
    /\ text = Render(script)
    /\ pos = 0
    /\ parser = NewParser
    /\ out = <<>>
    /\ trace = <<>>
    /\ ret = [op |-> "new", remainingBuffer |-> <<>>]
    /\ cut = [op |-> "new", pos |-> 0, nout |-> 0, ntrace |-> 0, n |-> 0]

\* arbitrary short streams and the longer sessions
InitStream ==
    /\ script \in Scripts(StreamLines, MaxLines) \cup Transcripts
    /\ now \in Times
    /\ ParserFresh
    /\ HandlerIdle

\* one tool call: TOOL_CALL, its TOOL_ARG lines, TOOL_OUTPUT
InitCall ==
    /\ script \in CallScripts
    /\ now = 1
    /\ ParserFresh
    /\ HandlerIdle

\* short streams for a parser that is also flushed and reset
InitParser ==
    /\ script \in Scripts(ParserLines, MaxLines)
    /\ now = 1
    /\ ParserFresh
    /\ HandlerIdle

\* the stdout callback hands the next k characters of the stream to parse
ParseChunk ==
    \E k \in 0..(Len(text) - pos) :
        \E r \in {Parse(parser, SubSeq(text, pos + 1, pos + k), now)} :
            /\ pos' = pos + k
            /\ parser' = r.p
            /\ out' = out \o r.events
            /\ trace' = trace \o r.steps
            /\ ret' = [op |-> "parse", remainingBuffer |-> r.p.buffer]
            /\ UNCHANGED <<script, text, cut, now>>
            /\ UNCHANGED <<procs, activeSessions, registry, sink, notified>>

\* where a flush or reset happened: stream position, events and lines so far
CutHere(op) ==
    [op |-> op, pos |-> pos, nout |-> Len(out), ntrace |-> Len(trace),
     n |-> cut.n + 1]

FlushCall ==
    /\ cut.n < MaxCuts
    /\ \E r \in {Flush(parser)} :
           /\ parser' = r.p
           /\ out' = out \o r.events
           /\ ret' = [op |-> "flush", remainingBuffer |-> r.remainingBuffer]
    /\ cut' = CutHere("flush")
    /\ UNCHANGED <<script, text, pos, trace, now>>
    /\ UNCHANGED <<procs, activeSessions, registry, sink, notified>>

ResetCall ==
    /\ cut.n < MaxCuts
    /\ parser' = Reset(parser)
    /\ ret' = [op |-> "reset", remainingBuffer |-> <<>>]
    /\ cut' = CutHere("reset")
    /\ UNCHANGED <<script, text, pos, out, trace, now>>
    /\ UNCHANGED <<procs, activeSessions, registry, sink, notified>>

\* two tool calls in a row, the second setting the key of the first to
\* another value, and a call that gets its argument after its output
ReuseScripts ==
    {RawScript(<<LineCall, LineArg, LineOutput, LineCall, LineArgW>>),
     RawScript(<<LineCall, LineOutput, LineArg, LineArgW>>)}

\* a parser that is flushed and reset between tool calls
InitReuse ==
    /\ script \in ReuseScripts
    /\ now = 1
    /\ ParserFresh
    /\ HandlerIdle

SpecStream == InitStream /\ [][ParseChunk]_vars

SpecCall == InitCall /\ [][ParseChunk]_vars

NextParser == ParseChunk \/ FlushCall \/ ResetCall

SpecParser == InitParser /\ [][NextParser]_vars

SpecReuse == InitReuse /\ [][NextParser]_vars

----------------------------------------------------------------------------
(* G3ProcessHandler                                                        *)

\* proc.pid of a subprocess that could not be started (undefined)
NoPid == 0

\* the null exit code (the subprocess was ended by a signal); also: no code
NullCode == -1

\* the codes a subprocess can exit with: success, failure, and null when
\* a signal ended it
ExitCodes == {0, 1, NullCode}

\* options.sessionId as a caller supplies it
CallerIds == {<<"s", 1>>}

\* `g3-${Date.now()}`
GeneratedId(t) == <<"g3", t>>

\* what every subprocess writes to stdout, as the chunks that arrive: the
\* first opens a response, holds one line and ends inside the next, the
\* second completes that line and adds another
ChunkOpen == AGENT_RESPONSE \o <<NL, " ", "h", NL, " ", "i">>
ChunkMore == <<NL, " ", "j", NL>>
StdoutChunk(n) == IF n % 2 = 1 THEN ChunkOpen ELSE ChunkMore

\* Map.set, Map.delete
MapSet(m, k, v) == [x \in (DOMAIN m) \cup {k} |-> IF x = k THEN v ELSE m[x]]
\* the whole map is emptied
MapDelete_Clear(m, k) == <<>>

MapDelete(m, k) == [x \in (DOMAIN m) \ {k} |-> m[x]]

\* AgentRegistry: per session the status, pid and exit code it was given
NoEntry == [status |-> "none", pid |-> NoPid, exitCode |-> NullCode]
Entry(reg, sid) == IF sid \in DOMAIN reg THEN reg[sid] ELSE NoEntry

createSession(reg, sid) ==
    MapSet(reg, sid, [NoEntry EXCEPT !.status = "created"])

updateSessionStatus(reg, sid, status) ==
    MapSet(reg, sid, [Entry(reg, sid) EXCEPT !.status = status])

updateSessionExit(reg, sid, status, code) ==
    MapSet(reg, sid, [Entry(reg, sid) EXCEPT !.status = status,
                                             !.exitCode = code])

setSessionPid(reg, sid, pid) ==
    MapSet(reg, sid, [Entry(reg, sid) EXCEPT !.pid = pid])

\* the events onCliEvent has received for a session
Sink(sid) == IF sid \in DOMAIN sink THEN sink[sid] ELSE <<>>

\* one onCliEvent(sessionId, event) call made for subprocess p; seen is
\* what the sink could observe of the handler at that moment
Delivery(sid, e, p, seen) ==
    [sessionId |-> sid, event |-> e, proc |-> p, seen |-> seen]

\* the loop stops after the first event
Deliver_FirstOnly(snk, sid, events, p, seen) ==
    IF events = <<>> THEN snk
    ELSE MapSet(snk, sid,
                Append(IF sid \in DOMAIN snk THEN snk[sid] ELSE <<>>,
                       Delivery(sid, events[1], p, seen)))

\* for (const event of events) onCliEvent(sessionId, event)
Deliver(snk, sid, events, p, seen) ==
    IF events = <<>> THEN snk
    ELSE MapSet(snk, sid,
                (IF sid \in DOMAIN snk THEN snk[sid] ELSE <<>>) \o
                [i \in 1..Len(events) |-> Delivery(sid, events[i], p, seen)])

\* a subprocess counts as started whether or not it has a pid
Started_Always(pid) == TRUE

\* if (proc.pid)
Started(pid) == pid # NoPid

\* an unknown exit code counts as success
ExitStatus_NullIsDone(code) ==
    IF code = 0 \/ code = NullCode THEN "done" ELSE "error"

\* code === 0 ? "done" : "error"
ExitStatus(code) == IF code = 0 THEN "done" ELSE "error"

\* code || 0
CodeOrZero(code) == IF code = NullCode THEN 0 ELSE code

SessionCreatedEvent(sid, t) ==
    [streamEventType |-> "session_created", sessionId |-> sid,
     timestamp |-> t]

\* the stdout chunks received so far from the subprocesses 1..n
RECURSIVE Received(_)
Received(n) == IF n = 0 THEN 0 ELSE procs[n].ndata + Received(n - 1)

\* what the handler has taken so far: spawnProcess calls, stdout and
\* stderr chunks, exit and error events, and stopProcess calls, those
\* that found their session and those that did not
Calls ==
    Len(procs) + Received(Len(procs)) + notified.onDebugLog
    + notified.onStartSessionFailed + notified.onStateChanged
    + Cardinality({p \in 1..Len(procs) : procs[p].killed})
    + notified.stopMissed

\* spawnProcess(binaryPath, workspace, prompt, options, onCliEvent):
\* given says whether options.sessionId is set, id is its value, pid the
\* pid of the spawned subprocess (NoPid when it could not be started), t
\* what Date.now() returns during the call
spawnProcess(given, id, pid, t) ==
    LET sessionId == IF given THEN id ELSE GeneratedId(t)
        p    == Len(procs) + 1
        reg1 == IF given
                THEN updateSessionStatus(registry, sessionId, "creating")
                ELSE createSession(registry, sessionId)
        act  == MapSet(activeSessions, sessionId, p)
        reg2 == IF Started(pid)
                THEN updateSessionStatus(
                         setSessionPid(reg1, sessionId, pid),
                         sessionId, "running")
                ELSE reg1
    IN  /\ activeSessions' = act
        /\ registry' = reg2
        /\ sink' = IF Started(pid)
                   THEN Deliver(sink, sessionId,
                                <<SessionCreatedEvent(sessionId, t)>>,
                                p, Entry(reg2, sessionId))
                   ELSE sink
        /\ notified' = IF Started(pid)
                       THEN [notified EXCEPT !.onSessionCreated = @ + 1]
                       ELSE notified
        /\ procs' = Append(procs,
                        [sessionId |-> sessionId, pid |-> pid,
                         parser |-> NewParser, fed |-> <<>>, ndata |-> 0,
                         exited |-> FALSE, code |-> NullCode,
                         killed |-> FALSE,
                         spawned |-> Entry(reg2, sessionId)])
        /\ now' = t
        /\ UNCHANGED parserVars

Spawn ==
    /\ Calls < MaxCalls
    /\ \E given \in BOOLEAN, id \in CallerIds, hasPid \in BOOLEAN,
          t \in now..MaxTime :
           spawnProcess(given, id,
                        IF hasPid THEN Len(procs) + 1 ELSE NoPid, t)

\* is p the subprocess the active set holds for its session
Tracked(p) ==
    /\ procs[p].sessionId \in DOMAIN activeSessions
    /\ activeSessions[procs[p].sessionId] = p

\* proc.stdout.on("data", ...) of subprocess p
StdoutData(p) ==
    /\ procs[p].pid # NoPid
    /\ Calls < MaxCalls
    /\ \E r \in {Parse(procs[p].parser,
                        StdoutChunk(procs[p].ndata + 1), now)} :
           /\ procs' = [procs EXCEPT
                            ![p].parser = r.p,
                            ![p].fed = @ \o StdoutChunk(procs[p].ndata + 1),
                            ![p].ndata = @ + 1]
           /\ sink' = Deliver(sink, procs[p].sessionId, r.events, p,
                              [tracked |-> Tracked(p)])
    /\ UNCHANGED <<activeSessions, registry, notified, now>>
    /\ UNCHANGED parserVars

\* the chunk is also delivered to the sink as a status event
StderrData_AsStatus(p) ==
    /\ procs[p].pid # NoPid
    /\ Calls < MaxCalls
    /\ notified' = [notified EXCEPT !.onDebugLog = @ + 1]
    /\ sink' = Deliver(sink, procs[p].sessionId,
                       <<[streamEventType |-> "status", message |-> <<"e">>,
                          timestamp |-> now]>>,
                       p, [tracked |-> Tracked(p)])
    /\ UNCHANGED <<procs, activeSessions, registry, now>>
    /\ UNCHANGED parserVars

\* proc.stderr.on("data", ...) of subprocess p
StderrData(p) ==
    /\ procs[p].pid # NoPid
    /\ Calls < MaxCalls
    /\ notified' = [notified EXCEPT !.onDebugLog = @ + 1]
    /\ UNCHANGED <<procs, activeSessions, registry, sink, now>>
    /\ UNCHANGED parserVars

\* proc.on("exit", ...) of subprocess p
Exit(p, code) ==
    /\ procs[p].pid # NoPid
    /\ ~procs[p].exited
    /\ Calls < MaxCalls
    /\ procs' = [procs EXCEPT ![p].exited = TRUE, ![p].code = code]
    /\ registry' = updateSessionExit(registry, procs[p].sessionId,
                                     ExitStatus(code), CodeOrZero(code))
    /\ activeSessions' = MapDelete(activeSessions, procs[p].sessionId)
    /\ notified' = [notified EXCEPT !.onStateChanged = @ + 1]
    /\ UNCHANGED <<sink, now>>
    /\ UNCHANGED parserVars

\* the error event also takes the session out of the active set
Error_Removes(p) ==
    /\ ~procs[p].exited
    /\ Calls < MaxCalls
    /\ notified' = [notified EXCEPT !.onStartSessionFailed = @ + 1]
    /\ activeSessions' = MapDelete(activeSessions, procs[p].sessionId)
    /\ UNCHANGED <<procs, registry, sink, now>>
    /\ UNCHANGED parserVars

\* proc.on("error", ...) of subprocess p
Error(p) ==
    /\ ~procs[p].exited
    /\ Calls < MaxCalls
    /\ notified' = [notified EXCEPT !.onStartSessionFailed = @ + 1]
    /\ UNCHANGED <<procs, activeSessions, registry, sink, now>>
    /\ UNCHANGED parserVars

\* a call that found no session was made
StopMissed == [notified EXCEPT !.stopMissed = @ + 1]

\* every subprocess spawned under the id is killed, found or not
stopProcess_KillByName(sessionId) ==
    /\ procs' = [p \in 1..Len(procs) |->
                     IF procs[p].sessionId = sessionId
                     THEN [procs[p] EXCEPT !.killed = TRUE] ELSE procs[p]]
    /\ activeSessions' = MapDelete(activeSessions, sessionId)
    /\ notified' = IF sessionId \in DOMAIN activeSessions
                   THEN notified ELSE StopMissed
    /\ UNCHANGED <<registry, sink, now>>
    /\ UNCHANGED parserVars

\* stopProcess(sessionId)
stopProcess(sessionId) ==
    /\ IF sessionId \in DOMAIN activeSessions
       THEN /\ procs' = [procs EXCEPT ![activeSessions[sessionId]].killed = TRUE]
            /\ activeSessions' = MapDelete(activeSessions, sessionId)
            /\ UNCHANGED notified
       ELSE /\ UNCHANGED <<procs, activeSessions>>
            /\ notified' = StopMissed
    /\ UNCHANGED <<registry, sink, now>>
    /\ UNCHANGED parserVars

\* the session ids a caller may know
KnownIds == CallerIds \cup {GeneratedId(t) : t \in Times}

Stop ==
    /\ Calls < MaxCalls
    /\ \E sessionId \in KnownIds : stopProcess(sessionId)

Init ==
    /\ HandlerIdle
    /\ now = 1
    /\ script = <<>>
    /\ ParserFresh

Stdout == \E p \in 1..Len(procs) : StdoutData(p)

Stderr == \E p \in 1..Len(procs) : StderrData(p)

ExitEvent ==
    \E p \in 1..Len(procs) :
        \E code \in ExitCodes : Exit(p, code)

ErrorEvent == \E p \in 1..Len(procs) : Error(p)

Next ==
    \/ Spawn
    \/ Stdout
    \/ Stderr
    \/ ExitEvent
    \/ ErrorEvent
    \/ Stop

Spec == Init /\ [][Next]_vars

----------------------------------------------------------------------------
(* Comparing event sequences                                               *)

\* an event as its consumer reads it: params read through the reference,
\* the timestamp of a status event left out
Seen(e, objs) ==
    IF e.streamEventType = "status"
    THEN [streamEventType |-> "status", message |-> e.message]
    ELSE IF e.say = "tool_use"
    THEN [e EXCEPT !.params = objs[e.params]]
    ELSE e

SeenAll(events, objs) == [i \in 1..Len(events) |-> Seen(events[i], objs)]

\* one parse call on a fresh parser
OneCall(s) == Parse(NewParser, s, 0)

IsToolUse(e) == e.streamEventType = "kilocode" /\ e.say = "tool_use"
IsText(e) == e.streamEventType = "kilocode" /\ e.say = "text"
IsStatus(e) == e.streamEventType = "status"

----------------------------------------------------------------------------
\* C1: feeding a text to a fresh parser in chunks, cut anywhere, yields the
\* same events in the same order (timestamps aside) as one parse call on
\* the text fed so far, and leaves the same parser state and buffer.
C1_ChunkInvariance ==
    LET whole == OneCall(SubSeq(text, 1, pos))
    IN  cut.op = "new" =>
            /\ SeenAll(out, parser.objs) = SeenAll(whole.events, whole.p.objs)
            /\ parser = whole.p
            /\ ret.op = "parse" => ret.remainingBuffer = whole.p.buffer

\* a stream with text, tool_use and status events was fed in pieces, the
\* last cut inside a line
C1_Witness ==
    /\ cut.op = "new"
    /\ parser.buffer # <<>>
    /\ \E i \in 1..Len(out) : IsStatus(out[i])
    /\ \E i \in 1..Len(out) :
           IsToolUse(out[i]) /\ parser.objs[out[i].params] # EmptyArgs
    /\ \E i \in 1..Len(out) : IsText(out[i])

----------------------------------------------------------------------------
\* what the claim says the params of a tool call are: the keys of its
\* TOOL_ARG lines, each with the value of the last line for that key
ExpectedParams(sc) ==
    LET args == SubSeq(sc, 2, Len(sc) - 1)
        keys == {args[i].key : i \in 1..Len(args)}
        last(k) == CHOOSE i \in 1..Len(args) :
                       /\ args[i].key = k
                       /\ \A j \in 1..Len(args) : args[j].key = k => j <= i
    IN  [k \in keys |-> args[last(k)].value]

\* C2: for TOOL_CALL:<name>, TOOL_ARG lines, TOOL_OUTPUT: no event is
\* emitted before the TOOL_OUTPUT: line is processed, and that line emits
\* exactly one tool_use event with the name and with the params the
\* TOOL_ARG lines give (last value per key, split at the first '=').
C2_ToolUseAtOutput ==
    LET n == Len(script)
    IN  /\ Len(trace) <= n
        /\ \A i \in 1..Len(trace) :
               /\ trace[i].line = script[i].line
               /\ i < n => trace[i].evs = <<>>
        /\ Len(trace) < n => out = <<>>
        /\ Len(trace) = n =>
               /\ trace[n].evs = out
               /\ Len(out) = 1
               /\ IsToolUse(out[1])
               /\ out[1].name = script[1].name
               /\ parser.objs[out[1].params] = ExpectedParams(script)

\* a call whose two TOOL_ARG lines set the same key to different values
\* has been fed up to and including its TOOL_OUTPUT: line
C2_Witness ==
    /\ Len(script) = 4
    /\ script[1].kind = "call"
    /\ script[2].key = script[3].key
    /\ script[2].value # script[3].value
    /\ Len(trace) = 4
    /\ Len(out) = 1
    /\ parser.objs[out[1].params] = [k \in {script[3].key} |-> script[3].value]

----------------------------------------------------------------------------
\* C6 (as claimed): text after the last line break is held in the buffer
\* and is in no processed line until its terminator arrives, and a flush
\* or a reset discards it: the lines processed since the last flush or
\* reset are exactly the lines of the text fed since then.
C6_HeldTextDiscarded ==
    LET since == Split(SubSeq(text, cut.pos + 1, pos))
        done  == Len(trace) - cut.ntrace
    IN  /\ parser.buffer = since[Len(since)]
        /\ done = Len(since) - 1
        /\ \A i \in 1..done : trace[cut.ntrace + i].line = since[i]

\* the same without flush: what the code does for a new and a reset parser
C6_HeldUnlessFlushed == cut.op # "flush" => C6_HeldTextDiscarded

----------------------------------------------------------------------------
StatusLines ==
    {[line |-> LineStatus, message |-> <<"m">>],
     [line |-> LineStatusBare, message |-> <<>>]}

\* C9: a CONTEXT_STATUS: line yields one status event (message = trimmed
\* remainder) in Idle only; in AgentResponse and FinalOutput it is emitted
\* as text, in ToolArgs it is ignored, in ToolOutput it is appended to the
\* collected output; it never changes the parser state.
C9_StatusByState ==
    \A i \in 1..Len(trace) : \A sl \in StatusLines :
        trace[i].line = sl.line =>
            LET st == trace[i]
            IN  /\ st.post.state = st.pre.state
                /\ st.pre.state = Idle =>
                       /\ st.evs = <<[streamEventType |-> "status",
                                      message |-> sl.message,
                                      timestamp |-> now]>>
                       /\ st.post = st.pre
                /\ st.pre.state = AgentResponse =>
                       /\ st.evs = <<[streamEventType |-> "kilocode",
                                      type |-> "say", say |-> "text",
                                      text |-> sl.line \o <<NL>>,
                                      partial |-> TRUE]>>
                       /\ st.post = st.pre
                /\ st.pre.state = FinalOutput =>
                       /\ st.evs = <<[streamEventType |-> "kilocode",
                                      type |-> "say", say |-> "text",
                                      text |-> sl.line \o <<NL>>,
                                      partial |-> TRUE,
                                      isAnswered |-> TRUE]>>
                       /\ st.post = st.pre
                /\ st.pre.state = ToolArgs =>
                       st.evs = <<>> /\ st.post = st.pre
                /\ st.pre.state = ToolOutput =>
                       /\ st.evs = <<>>
                       /\ st.post =
                              [st.pre EXCEPT !.currentToolOutput =
                                                 @ \o sl.line \o <<NL>>]

\* a status line was processed in Idle and gave a status event, and another
\* one was processed in AgentResponse and gave a text event
C9_Witness ==
    /\ \E i \in 1..Len(trace) :
           /\ trace[i].line = LineStatusBare
           /\ trace[i].pre.state = Idle
           /\ Len(trace[i].evs) = 1 /\ IsStatus(trace[i].evs[1])
    /\ \E i \in 1..Len(trace) :
           /\ trace[i].line = LineStatus
           /\ trace[i].pre.state = AgentResponse
           /\ Len(trace[i].evs) = 1 /\ IsText(trace[i].evs[1])

----------------------------------------------------------------------------
OutputLines == {LineOutput, LineOutputTail}

\* no TOOL_CALL: line with a name since the parser was created or since the
\* last END_TOOL_OUTPUT before line i
NoCallSince(i) ==
    \A j \in 1..(i - 1) :
        trace[j].line = LineCall =>
            \E m \in (j + 1)..(i - 1) : trace[m].line = LineEnd

\* C10: a TOOL_OUTPUT: line processed while no tool name is recorded emits
\* no event and still moves the parser to ToolOutput with the collected
\* output cleared.
C10_OutputWithoutName ==
    \A i \in 1..Len(trace) :
        (/\ trace[i].line \in OutputLines
         /\ \/ trace[i].pre.currentToolName \in {Null, <<>>}
            \/ NoCallSince(i)) =>
            /\ trace[i].evs = <<>>
            /\ trace[i].post.state = ToolOutput
            /\ trace[i].post.currentToolOutput = <<>>

\* a TOOL_OUTPUT: line was processed after END_TOOL_OUTPUT had cleared the
\* name, and one while output had been collected
C10_Witness ==
    /\ \E i \in 2..Len(trace) :
           /\ trace[i].line = LineOutput
           /\ trace[i - 1].line = LineEnd
           /\ trace[1].line = LineCall
    \/ \E i \in 1..Len(trace) :
           /\ trace[i].line = LineOutput
           /\ trace[i].pre.currentToolName = Null
           /\ trace[i].pre.currentToolOutput # <<>>

----------------------------------------------------------------------------
(* The handler's sessions                                                  *)

Procs == 1..Len(procs)

\* a subprocess that was started and has neither exited nor been stopped
Live(p) == procs[p].pid # NoPid /\ ~procs[p].exited /\ ~procs[p].killed

\* the deliveries onCliEvent received for subprocess p under session sid
From(p, sid) ==
    LET mine(d) == d.proc = p IN SelectSeq(Sink(sid), mine)

IsCreated(d) == d.event.streamEventType = "session_created"

\* the session_created deliveries and the parser's events among them
CreatedOf(p, sid) ==
    LET created(d) == IsCreated(d) IN SelectSeq(From(p, sid), created)

ParsedOf(p, sid) ==
    LET parsed(d) == ~IsCreated(d) IN SelectSeq(From(p, sid), parsed)

EventsOf(ds) == [i \in 1..Len(ds) |-> ds[i].event]

\* subprocess p exits in this step
Exits(p) == ~procs[p].exited /\ procs'[p].exited

----------------------------------------------------------------------------
\* C3 (as claimed): for each sessionId at most one subprocess spawned under
\* it is live, and it is the one the active set records under that id.
C3_OneLivePerSession ==
    \A p \in Procs :
        Live(p) =>
            /\ Tracked(p)
            /\ \A q \in Procs :
                   Live(q) /\ procs[q].sessionId = procs[p].sessionId => q = p

----------------------------------------------------------------------------
\* C4: when the exit event of a subprocess is delivered with code c, the
\* session is not in the active set afterwards, the registry has status
\* "done" for c = 0 and "error" otherwise, the recorded code is c (0 for
\* null), and onStateChanged was called once.
C4_ExitRecorded ==
    [][\A p \in Procs :
          Exits(p) =>
              LET sid == procs[p].sessionId
                  c   == procs'[p].code
              IN  /\ sid \notin DOMAIN activeSessions'
                  /\ sid \in DOMAIN registry'
                  /\ registry'[sid].status = (IF c = 0 THEN "done" ELSE "error")
                  /\ registry'[sid].exitCode = (IF c = NullCode THEN 0 ELSE c)
                  /\ notified'.onStateChanged = notified.onStateChanged + 1
                  /\ sink' = sink]_vars

\* a subprocess has exited with a null code: the registry holds "error"
\* with code 0 and the session is out of the active set
C4_Witness ==
    \E p \in Procs :
        /\ procs[p].exited
        /\ procs[p].code = NullCode
        /\ Entry(registry, procs[p].sessionId).status = "error"
        /\ Entry(registry, procs[p].sessionId).exitCode = 0
        /\ procs[p].sessionId \notin DOMAIN activeSessions
        /\ notified.onStateChanged = 1

----------------------------------------------------------------------------
\* C5 (as claimed): stopProcess on an active session kills its subprocess
\* and removes the session at once, and the later exit event of a stopped
\* subprocess leaves the active set as it was.
C5_StoppedExitIsNoOp ==
    [][\A p \in Procs :
          /\ (~procs[p].killed /\ procs'[p].killed) =>
                 procs[p].sessionId \notin DOMAIN activeSessions'
          /\ (procs[p].killed /\ Exits(p)) =>
                 activeSessions' = activeSessions]_vars

----------------------------------------------------------------------------
\* C7: every event the parser of a subprocess returned is delivered exactly
\* once, under the subprocess's sessionId, in stream order, whether or not
\* the session is still in the active set: the parser events delivered for
\* a subprocess are those of the text it has written so far.
C7_EventsDelivered ==
    \A p \in Procs :
        LET sid   == procs[p].sessionId
            whole == OneCall(procs[p].fed)
        IN  /\ SeenAll(EventsOf(ParsedOf(p, sid)), procs[p].parser.objs)
                   = SeenAll(whole.events, whole.p.objs)
            /\ \A d \in {From(p, sid)[i] : i \in 1..Len(From(p, sid))} :
                   d.sessionId = sid
            /\ \A other \in (DOMAIN sink) \ {sid} : From(p, other) = <<>>

\* a subprocess that is no longer in the active set had both its chunks
\* delivered, the second one after it had left the active set
C7_Witness ==
    \E p \in Procs :
        LET ds == ParsedOf(p, procs[p].sessionId)
        IN  /\ procs[p].ndata = 2
            /\ Len(ds) = 3
            /\ ds[1].seen.tracked
            /\ ~ds[2].seen.tracked
            /\ ~ds[3].seen.tracked

----------------------------------------------------------------------------
\* C8: a spawnProcess call that obtains a pid delivers exactly one
\* session_created event with the sessionId, during the call, when the
\* registry already has the pid and "running", and before any parser event
\* of that subprocess; a call that obtains no pid delivers none and does
\* not set the registry status to "running".
C8_SessionCreated ==
    \A p \in Procs :
        LET sid     == procs[p].sessionId
            created == CreatedOf(p, sid)
        IN  /\ procs[p].pid # NoPid =>
                   /\ Len(created) = 1
                   /\ created[1].event.sessionId = sid
                   /\ created[1].sessionId = sid
                   /\ created[1].seen.status = "running"
                   /\ created[1].seen.pid = procs[p].pid
                   /\ IsCreated(From(p, sid)[1])
                   /\ procs[p].spawned.status = "running"
            /\ procs[p].pid = NoPid =>
                   /\ created = <<>>
                   /\ procs[p].spawned.status \in {"creating", "created"}
            /\ \A other \in (DOMAIN sink) \ {sid} : CreatedOf(p, other) = <<>>

\* one call obtained a pid and its subprocess has delivered parser events
\* after session_created, another call obtained none
C8_Witness ==
    /\ \E p \in Procs :
           /\ procs[p].pid # NoPid
           /\ Len(From(p, procs[p].sessionId)) >= 2
    /\ \E p \in Procs :
           /\ procs[p].pid = NoPid
           /\ From(p, procs[p].sessionId) = <<>>

----------------------------------------------------------------------------
(* Lines and the events they give                                          *)

\* is the line one of the five protocol markers
MarkerLine(line) ==
    \/ Trim(line) \in {AGENT_RESPONSE, END_TOOL_OUTPUT, FINAL_OUTPUT}
    \/ StartsWith(Trim(line), TOOL_CALL)
    \/ StartsWith(Trim(line), TOOL_OUTPUT)

\* the events of the first n processed lines, in the order of the lines
RECURSIVE Emitted(_)
Emitted(n) == IF n = 0 THEN <<>> ELSE Emitted(n - 1) \o trace[n].evs

\* C11: in AgentResponse and FinalOutput every complete line that is no
\* marker, the empty line included, yields exactly one text event with
\* partial = true and the raw line plus a line terminator as text, with
\* isAnswered in FinalOutput only; a marker line yields no text event; the
\* events appear in the order of the lines.
C11_TextPerLine ==
    /\ out = Emitted(Len(trace))
    /\ \A i \in 1..Len(trace) :
           LET st == trace[i]
           IN  st.pre.state \in {AgentResponse, FinalOutput} =>
                   IF MarkerLine(st.line)
                   THEN \A j \in 1..Len(st.evs) : ~IsText(st.evs[j])
                   ELSE st.evs =
                            <<IF st.pre.state = AgentResponse
                              THEN [streamEventType |-> "kilocode",
                                    type |-> "say", say |-> "text",
                                    text |-> st.line \o <<NL>>,
                                    partial |-> TRUE]
                              ELSE [streamEventType |-> "kilocode",
                                    type |-> "say", say |-> "text",
                                    text |-> st.line \o <<NL>>,
                                    partial |-> TRUE,
                                    isAnswered |-> TRUE]>>

\* AgentResponse gave the raw text of an indented line and an empty-text
\* event for an empty line, the FINAL_OUTPUT: marker gave nothing, and
\* FinalOutput gave an answered empty-text event
C11_Witness ==
    /\ Len(trace) = 6
    /\ trace[2].pre.state = AgentResponse
    /\ trace[2].evs[1].text = <<" ", "h", NL>>
    /\ trace[3].line = LineEmpty
    /\ trace[3].evs[1].text = <<NL>>
    /\ trace[4].line = LineFinal
    /\ trace[4].evs = <<>>
    /\ trace[5].pre.state = FinalOutput
    /\ trace[5].evs = <<[streamEventType |-> "kilocode", type |-> "say",
                         say |-> "text", text |-> <<NL>>,
                         partial |-> TRUE, isAnswered |-> TRUE]>>
    /\ Len(out) = 3

----------------------------------------------------------------------------
(* What the handler's operations leave alone                               *)

\* no callback of the handler is invoked in this step
NoCallback ==
    /\ notified'.onStateChanged = notified.onStateChanged
    /\ notified'.onSessionCreated = notified.onSessionCreated
    /\ notified'.onStartSessionFailed = notified.onStartSessionFailed
    /\ notified'.onDebugLog = notified.onDebugLog

\* C12: stopProcess with a sessionId that is not in the active set (never
\* spawned, already exited or already stopped) kills no process, delivers
\* no event and no callback, and leaves the active set and the registry
\* unchanged.
C12_StopUnknownIsNoOp ==
    [][notified'.stopMissed # notified.stopMissed =>
           /\ procs' = procs
           /\ activeSessions' = activeSessions
           /\ registry' = registry
           /\ sink' = sink
           /\ NoCallback]_vars

\* stopProcess found no session twice, and by now one session has exited
\* by itself and is out of the active set while its subprocess record is
\* untouched
C12_Witness ==
    /\ notified.stopMissed = 2
    /\ \E p \in Procs :
           /\ procs[p].exited
           /\ ~procs[p].killed
           /\ procs[p].sessionId \notin DOMAIN activeSessions

----------------------------------------------------------------------------
\* C13: a stderr data callback only invokes the debug-log callback: it
\* delivers no event to the sink and leaves every parser (state and
\* buffer), the active set and the registry unchanged.
C13_StderrOnlyLogs ==
    [][notified'.onDebugLog # notified.onDebugLog =>
           /\ notified' = [notified EXCEPT !.onDebugLog = @ + 1]
           /\ sink' = sink
           /\ procs' = procs
           /\ activeSessions' = activeSessions
           /\ registry' = registry]_vars

\* a stderr chunk was logged for a handler one of whose parsers is inside
\* a response and holds a partial line
C13_Witness ==
    /\ notified.onDebugLog = 1
    /\ \E p \in Procs :
           /\ Tracked(p)
           /\ procs[p].parser.state = AgentResponse
           /\ procs[p].parser.buffer # <<>>
           /\ Len(ParsedOf(p, procs[p].sessionId)) = 1

----------------------------------------------------------------------------
(* The tool call the parser is collecting                                  *)

\* nothing of a tool call is recorded
NothingCollected(v) ==
    /\ v.args = EmptyArgs
    /\ v.currentToolOutput = <<>>

\* C14 (as claimed): the argument mapping and the collected output are
\* cleared at every entry into ToolArgs and at every entry into Idle, so
\* whenever the parser is in Idle the tool name, the argument mapping and
\* the collected output are all empty.
C14_IdleIsClean ==
    /\ \A i \in 1..Len(trace) :
           (/\ trace[i].post.state \in {ToolArgs, Idle}
            /\ MarkerLine(trace[i].line)) => NothingCollected(trace[i].post)
    /\ parser.state = Idle =>
           /\ ~Truthy(parser.currentToolName)
           /\ NothingCollected(View(parser))

----------------------------------------------------------------------------
\* C15 (as claimed): after reset() the events the following parse calls
\* return are those a newly constructed parser returns for the same
\* chunks.
C15_ResetIsFresh ==
    cut.op = "reset" =>
        LET fresh == OneCall(SubSeq(text, cut.pos + 1, pos))
        IN  SeenAll(SubSeq(out, cut.nout + 1, Len(out)), parser.objs)
                = SeenAll(fresh.events, fresh.p.objs)

----------------------------------------------------------------------------
\* the TOOL_CALL: lines of the streams and the names they give
CallNames ==
    {[line |-> LineCall, name |-> <<"b">>],
     [line |-> LineCallRun, name |-> <<"r", "u", "n">>],
     [line |-> LineCallNoName, name |-> <<>>]}

IsCallLine(line) == \E c \in CallNames : c.line = line

\* the state each marker line leads to
MarkerTarget(line) ==
    IF line = LineAgent THEN AgentResponse
    ELSE IF IsCallLine(line) THEN ToolArgs
    ELSE IF line \in OutputLines THEN ToolOutput
    ELSE IF line = LineEnd THEN Idle
    ELSE FinalOutput

\* the keys of the TOOL_ARG lines processed in ToolArgs after line c and
\* before line i
KeysBetween(c, i) ==
    {<<"k">> : m \in {m \in (c + 1)..(i - 1) :
                         /\ trace[m].line = LineArg
                         /\ trace[m].pre.state = ToolArgs}}

\* C16: every marker line takes effect from every parser state, and a
\* TOOL_CALL: line restarts tool collection: a tool_use event has the name
\* of the most recent TOOL_CALL: line and its params have only keys set by
\* TOOL_ARG lines processed in ToolArgs after that line.
C16_CallRestarts ==
    \A i \in 1..Len(trace) :
        LET st == trace[i]
        IN  /\ MarkerLine(st.line) =>
                   st.post.state = MarkerTarget(st.line)
            /\ IsCallLine(st.line) =>
                   /\ st.post.args = EmptyArgs
                   /\ \E c \in CallNames :
                          /\ c.line = st.line
                          /\ st.post.currentToolName = c.name
            /\ \A j \in 1..Len(st.evs) :
                   IsToolUse(st.evs[j]) =>
                       \E c \in 1..(i - 1) : \E cn \in CallNames :
                           /\ trace[c].line = cn.line
                           /\ \A m \in (c + 1)..(i - 1) :
                                  ~IsCallLine(trace[m].line)
                           /\ st.evs[j].name = cn.name
                           /\ DOMAIN parser.objs[st.evs[j].params]
                                  = KeysBetween(c, i)

\* a call with an argument was abandoned for a second call, whose
\* tool_use event has the second name and no params; a TOOL_ARG line
\* processed in ToolOutput did not reach the next tool_use event either
C16_Witness ==
    /\ Len(trace) = 6
    /\ trace[2].line = LineArg
    /\ trace[2].post.args # EmptyArgs
    /\ trace[3].line = LineCallRun
    /\ trace[5].line = LineArg
    /\ trace[5].pre.state = ToolOutput
    /\ Len(out) = 2
    /\ \A j \in 1..2 :
           /\ IsToolUse(out[j])
           /\ out[j].name = <<"r", "u", "n">>
           /\ parser.objs[out[j].params] = EmptyArgs

----------------------------------------------------------------------------
\* C17: once parse has returned a tool_use event, no later parse, flush or
\* reset call changes its name or what its params reference holds, although
\* the reference is to the parser's argument object and not to a copy.
C17_EventsImmutable ==
    [][/\ Len(out') >= Len(out)
       /\ \A i \in 1..Len(out) :
              /\ out'[i] = out[i]
              /\ Seen(out'[i], parser'.objs) = Seen(out[i], parser.objs)]_vars

\* a tool_use event with k = v was returned and its parser reset; since
\* then the parser has collected k = w for the next call, and the event
\* still reads k = v
C17_Witness ==
    /\ Len(out) = 1
    /\ IsToolUse(out[1])
    /\ cut.op = "reset"
    /\ cut.nout = 1
    /\ parser.objs[out[1].params] = [k \in {<<"k">>} |-> <<"v">>]
    /\ parser.currentToolArgs # out[1].params
    /\ parser.objs[parser.currentToolArgs] = [k \in {<<"k">>} |-> <<"w">>]

----------------------------------------------------------------------------
(* One session as against the others                                       *)

\* what belongs to session sid: the events delivered under it, the parsers
\* of its subprocesses, its entry in the active set and in the registry
Session(sid) ==
    [events  |-> Sink(sid),
     parsers |-> [p \in {q \in Procs : procs[q].sessionId = sid} |->
                     procs[p].parser],
     active  |-> IF sid \in DOMAIN activeSessions
                 THEN activeSessions[sid] ELSE 0,
     entry   |-> Entry(registry, sid)]

\* this step is a spawn under sid, or a callback or stop of one of the
\* subprocesses spawned under sid
OwnStep(sid) ==
    \/ /\ Len(procs') = Len(procs) + 1
       /\ procs'[Len(procs')].sessionId = sid
    \/ \E p \in Procs :
           /\ procs[p].sessionId = sid
           /\ procs'[p] # procs[p]

\* C18: the events delivered for a session, its parser state and its
\* entries in the active set and the registry are changed only by that
\* session's own spawn, stdout, exit, error and stop operations, never by
\* those of a session with a different id.
C18_SessionIsolation ==
    [][\A sid \in KnownIds : Session(sid)' # Session(sid) => OwnStep(sid)]_vars

\* two sessions with different ids: one has exited and is out of the
\* active set, the other is still active, has its events and its parser
\* inside a line
C18_Witness ==
    \E p, q \in Procs :
        /\ procs[p].sessionId # procs[q].sessionId
        /\ procs[q].exited
        /\ procs[q].sessionId \notin DOMAIN activeSessions
        /\ Tracked(p)
        /\ procs[p].ndata = 1
        /\ procs[p].parser.buffer # <<>>
        /\ Len(Sink(procs[p].sessionId)) = 2
        /\ Entry(registry, procs[p].sessionId).status = "running"

----------------------------------------------------------------------------
\* C19 (as claimed): the number of tool_use events emitted so far never
\* exceeds the number of TOOL_CALL: lines processed so far.
C19_OneToolUsePerCall ==
    Cardinality({i \in 1..Len(out) : IsToolUse(out[i])})
        <= Cardinality({i \in 1..Len(trace) : IsCallLine(trace[i].line)})

----------------------------------------------------------------------------
\* C20: a session leaves the active set only through the exit callback of
\* a subprocess of that session or through stopProcess; the error callback
\* only invokes the start-failed callback and leaves the active set and
\* the registry unchanged, so a session whose spawn failed stays in the
\* active set until it is stopped.
C20_ErrorKeepsSession ==
    [][/\ notified'.onStartSessionFailed # notified.onStartSessionFailed =>
              /\ notified' = [notified EXCEPT !.onStartSessionFailed = @ + 1]
              /\ activeSessions' = activeSessions
              /\ registry' = registry
              /\ procs' = procs
              /\ sink' = sink
       /\ \A sid \in DOMAIN activeSessions :
              sid \notin DOMAIN activeSessions' =>
                  \E p \in Procs :
                      /\ procs[p].sessionId = sid
                      /\ \/ Exits(p)
                         \/ ~procs[p].killed /\ procs'[p].killed]_vars

\* a spawn obtained no pid and its error event was delivered: the session
\* is still in the active set and the registry still has the status the
\* spawn gave it
C20_Witness ==
    /\ notified.onStartSessionFailed = 1
    /\ \E p \in Procs :
           /\ procs[p].pid = NoPid
           /\ ~procs[p].exited
           /\ Tracked(p)
           /\ Entry(registry, procs[p].sessionId) = procs[p].spawned

====
